---- MODULE Spec2Model ----
(***************************************************************************)
(* A model of the dto-builder library: the DtoBuilder class with its proxy *)
(* wrapper (DtoBuilder.create), the functional createBuilder of            *)
(* lib/dto-builder.ts, deepClone and DtoValidationFailedException.         *)
(*                                                                         *)
(* JavaScript objects live in a heap (a sequence of objects, an address    *)
(* being an index), so that two references to one object are two equal     *)
(* addresses and a mutation through one is seen through the other.         *)
(* Member names are sequences of one-character strings, so that the        *)
(* regular expressions of the proxy get trap and extractKey are computed   *)
(* character by character.                                                 *)
(*                                                                         *)
(* build() of the class is declared async: the model takes the value the   *)
(* returned promise resolves to as the result of build.                    *)
(***************************************************************************)
EXTENDS Integers, Sequences, FiniteSets, TLC

VARIABLES heap, builders, held, last, built, steps

vars == <<heap, builders, held, last, built, steps>>

\* ------------------------------------------------------------------ bounds

\* The number of calls (builder operations and caller writes) in one run.
MaxSteps == 3
\* The number of builders alive in one run (the first one and its clones/extensions).
MaxBuilders == 2

\* -------------------------------------------------------------- characters

UpperSeq ==
  <<"A","B","C","D","E","F","G","H","I","J","K","L","M",
    "N","O","P","Q","R","S","T","U","V","W","X","Y","Z">>

LowerSeq ==
  <<"a","b","c","d","e","f","g","h","i","j","k","l","m",
    "n","o","p","q","r","s","t","u","v","w","x","y","z">>

\* The character class [A-Z] of the regular expressions.
IsUpper(c) == \E i \in DOMAIN UpperSeq : UpperSeq[i] = c

\* String.prototype.toLowerCase on one character.
ToLowerCase(c) ==
  IF IsUpper(c) THEN LowerSeq[CHOOSE i \in DOMAIN UpperSeq : UpperSeq[i] = c] ELSE c

\* s starts with the characters of p.
StartsWith(s, p) == Len(s) >= Len(p) /\ SubSeq(s, 1, Len(p)) = p

\* /^<p>[A-Z]/.test(s): the anchored patterns of the setter and the getter.
TestAnchored(p, s) ==
  /\ StartsWith(s, p)
  /\ Len(s) > Len(p)
  /\ IsUpper(s[Len(p) + 1])

\* /<p>[A-Z]/.test(s): the patterns of add and count carry no ^ anchor, so they
\* match p followed by an upper-case letter at any position of s.
TestUnanchored(p, s) ==
  \E i \in 1..Len(s) :
    /\ i + Len(p) <= Len(s)
    /\ SubSeq(s, i, i + Len(p) - 1) = p
    /\ IsUpper(s[i + Len(p)])

\* extractKey(prefix, prop): remove the prefix where prop starts with it, then
\* lower-case the first character where it is in [A-Z].
extractKey(prefix, prop) ==
  LET rest == IF StartsWith(prop, prefix)
              THEN SubSeq(prop, Len(prefix) + 1, Len(prop)) ELSE prop
  IN  IF rest # <<>> /\ IsUpper(rest[1])
      THEN <<ToLowerCase(rest[1])>> \o Tail(rest)
      ELSE rest

\* ------------------------------------------------------------ member names

P_set == <<"s","e","t">>
P_get == <<"g","e","t">>
P_add == <<"a","d","d">>
P_count == <<"c","o","u","n","t">>

N_foo == <<"f","o","o">>
N_bar == <<"b","a","r">>
N_validator == <<"v","a","l","i","d","a","t","o","r">>
N_transformer == <<"t","r","a","n","s","f","o","r","m","e","r">>
N_setFoo == <<"s","e","t","F","o","o">>
N_getFoo == <<"g","e","t","F","o","o">>
N_addFoo == <<"a","d","d","F","o","o">>
N_countFoo == <<"c","o","u","n","t","F","o","o">>
N_setFooBar == <<"s","e","t","F","o","o","B","a","r">>
N_getFooBar == <<"g","e","t","F","o","o","B","a","r">>
N_addFooBar == <<"a","d","d","F","o","o","B","a","r">>
N_countFooBar == <<"c","o","u","n","t","F","o","o","B","a","r">>
N_setPreaddFoo == <<"s","e","t","P","r","e","a","d","d","F","o","o">>
N_getPreaddFoo == <<"g","e","t","P","r","e","a","d","d","F","o","o">>
N_addPreaddFoo == <<"a","d","d","P","r","e","a","d","d","F","o","o">>
N_countPreaddFoo == <<"c","o","u","n","t","P","r","e","a","d","d","F","o","o">>
N_setValidator == <<"s","e","t","V","a","l","i","d","a","t","o","r">>
N_getValidator == <<"g","e","t","V","a","l","i","d","a","t","o","r">>
N_getTransformer == <<"g","e","t","T","r","a","n","s","f","o","r","m","e","r">>
N_useValidator == <<"u","s","e","V","a","l","i","d","a","t","o","r">>
N_useTransformer == <<"u","s","e","T","r","a","n","s","f","o","r","m","e","r">>
N_preaddFoo == <<"p","r","e","a","d","d","F","o","o">>
N_toString == <<"t","o","S","t","r","i","n","g">>
N_set == <<"s","e","t">>
N_get == <<"g","e","t">>
N_patch == <<"p","a","t","c","h">>
N_clone == <<"c","l","o","n","e">>
N_extend == <<"e","x","t","e","n","d">>
N_reset == <<"r","e","s","e","t">>
N_build == <<"b","u","i","l","d">>

\* A property key given to the proxy: a string, or a symbol (with its description).
StrProp(s) == [sym |-> FALSE, str |-> s]
SymProp(s) == [sym |-> TRUE, str |-> s]
NoProp == [sym |-> FALSE, str |-> <<>>]

\* ------------------------------------------------------------------ values

\* A JavaScript value: k is its kind, a an address (kind "ref"), a number (kind
\* "number") or a builder (kinds "target", "proxy"), s a string or a function's name.
Undef == [k |-> "undefined", a |-> 0, s |-> ""]
Null == [k |-> "null", a |-> 0, s |-> ""]
Str(x) == [k |-> "string", a |-> 0, s |-> x]
Num(n) == [k |-> "number", a |-> n, s |-> ""]
Bool(x) == [k |-> "boolean", a |-> IF x THEN 1 ELSE 0, s |-> ""]
Ref(a) == [k |-> "ref", a |-> a, s |-> ""]
Fn(name) == [k |-> "function", a |-> 0, s |-> name]
\* The inner state object of builder b (`this` in the class) and its proxy wrapper.
Target(b) == [k |-> "target", a |-> b, s |-> ""]
Proxy(b) == [k |-> "proxy", a |-> b, s |-> ""]

\* typeof v === 'object' (true of null as well).
TypeofObject(v) == v.k \in {"ref", "null"}
\* typeof v === 'function'
TypeofFunction(v) == v.k = "function"
\* !v
Falsy(v) ==
  \/ v.k \in {"undefined", "null"}
  \/ v.k = "boolean" /\ v.a = 0
  \/ v.k = "string" /\ v.s = ""
  \/ v.k = "number" /\ v.a = 0
\* v === undefined || v === null (the left operand of ??)
Nullish(v) == v.k \in {"undefined", "null"}

\* A heap object: a plain record or a class instance (cls "Object", "TestDto") with
\* its own properties m, or an array (cls "Array") with its elements s.
NoProps == <<>>
ObjectOf(cls, m) == [cls |-> cls, m |-> m, s |-> <<>>]
ArrayOf(items) == [cls |-> "Array", m |-> NoProps, s |-> items]
\* The other containers deepClone knows: a Date with its time value, a RegExp with
\* its source and flags, a Set with its members in insertion order, a Map with
\* its entries in insertion order, each a key followed by its value.
DateOf(time) == [cls |-> "Date", m |-> NoProps, s |-> <<Num(time)>>]
RegExpOf(source, flags) == [cls |-> "RegExp", m |-> NoProps, s |-> <<Str(source), Str(flags)>>]
SetOf(members) == [cls |-> "Set", m |-> NoProps, s |-> members]
MapOf(entries) == [cls |-> "Map", m |-> NoProps, s |-> entries]

\* input instanceof Date, RegExp, Set, Map
InstanceOf(h, v, cls) == v.k = "ref" /\ h[v.a].cls = cls

\* Array.isArray(v)
IsArray(h, v) == v.k = "ref" /\ h[v.a].cls = "Array"

\* obj.key: the property's value, undefined when absent.
GetProp(m, key) == IF key \in DOMAIN m THEN m[key] ELSE Undef

\* obj[key] = v
SetProp(m, key, v) == [x \in DOMAIN m \cup {key} |-> IF x = key THEN v ELSE m[x]]

\* Object.assign(target, source) on the property maps: every own property of
\* source is written to target, in order, over what target had.
ObjectAssignTargetWins(target, source) ==
  [x \in DOMAIN target \cup DOMAIN source |->
     IF x \in DOMAIN target THEN target[x] ELSE source[x]]

ObjectAssign(target, source) ==
  [x \in DOMAIN target \cup DOMAIN source |->
     IF x \in DOMAIN source THEN source[x] ELSE target[x]]

\* The heap with the properties of the object at address a replaced.
WithProps(h, a, m) == [h EXCEPT ![a].m = m]
\* The heap with the elements of the array at address a replaced.
WithItems(h, a, items) == [h EXCEPT ![a].s = items]

\* --------------------------------------------------------------- deepClone

RECURSIVE deepClone(_, _)
RECURSIVE CloneItems(_, _, _)
RECURSIVE CloneFields(_, _, _, _)
RECURSIVE CloneEntries(_, _, _)

\* input.map(item => typeof item === 'object' ? deepClone(item) : item) of the
\* array branch, and the same loop over the members of the Set branch: a function
\* among the elements is copied as it is.
CloneItems(h, items, acc) ==
  IF items = <<>> THEN [h |-> h, s |-> acc, ok |-> TRUE]
  ELSE LET item == Head(items)
           r == IF TypeofObject(item) THEN deepClone(h, item)
                ELSE [h |-> h, v |-> item, ok |-> TRUE]
       IN  IF ~r.ok THEN [h |-> h, s |-> acc, ok |-> FALSE]
           ELSE CloneItems(r.h, Tail(items), Append(acc, r.v))

\* The for..in loop of the record branch: a function-valued property throws a
\* TypeError (ok = FALSE), an object-typed one is cloned, any other is copied.
CloneFields(h, m, keys, acc) ==
  IF keys = {} THEN [h |-> h, m |-> acc, ok |-> TRUE]
  ELSE LET key == CHOOSE x \in keys : TRUE
           value == m[key]
           r == IF TypeofObject(value) THEN deepClone(h, value)
                ELSE [h |-> h, v |-> value, ok |-> TRUE]
       IN  IF TypeofFunction(value) \/ ~r.ok
           THEN [h |-> h, m |-> acc, ok |-> FALSE]
           ELSE CloneFields(r.h, m, keys \ {key}, SetProp(acc, key, r.v))

\* The loop of the Map branch: clone.set(mapKey, typeof mapValue === 'object' ?
\* deepClone(mapValue) : mapValue): the key is kept as it is, the value cloned.
CloneEntries(h, entries, acc) ==
  IF entries = <<>> THEN [h |-> h, s |-> acc, ok |-> TRUE]
  ELSE LET mapKey == entries[1]
           mapValue == entries[2]
           r == IF TypeofObject(mapValue) THEN deepClone(h, mapValue)
                ELSE [h |-> h, v |-> mapValue, ok |-> TRUE]
       IN  IF ~r.ok THEN [h |-> h, s |-> acc, ok |-> FALSE]
           ELSE CloneEntries(r.h, SubSeq(entries, 3, Len(entries)), acc \o <<mapKey, r.v>>)

\* A mutant of deepClone: the spread copy { ...input } of one level.
deepCloneShallow(h, input) ==
  IF input.k = "ref"
  THEN [h |-> Append(h, h[input.a]), v |-> Ref(Len(h) + 1), ok |-> TRUE]
  ELSE [h |-> h, v |-> input, ok |-> TRUE]

\* deepClone(input) in heap h: the heap with the copies added, the value returned,
\* and ok = FALSE where the call throws a TypeError. The branches are those of the
\* code, in its order: Date, RegExp, array, Set, Map, then typeof 'object' (null
\* included, which has no property to enumerate and so comes back as a new empty
\* record); any other value, a function included, is returned as it is.
deepClone(h, input) ==
  IF InstanceOf(h, input, "Date")
  THEN [h |-> Append(h, DateOf(h[input.a].s[1].a)), v |-> Ref(Len(h) + 1), ok |-> TRUE]
  ELSE IF InstanceOf(h, input, "RegExp")
  THEN [h |-> Append(h, RegExpOf(h[input.a].s[1].s, h[input.a].s[2].s)),
        v |-> Ref(Len(h) + 1), ok |-> TRUE]
  ELSE IF IsArray(h, input)
  THEN LET r == CloneItems(h, h[input.a].s, <<>>)
       IN  IF ~r.ok THEN [h |-> h, v |-> Undef, ok |-> FALSE]
           ELSE [h |-> Append(r.h, ArrayOf(r.s)), v |-> Ref(Len(r.h) + 1), ok |-> TRUE]
  ELSE IF InstanceOf(h, input, "Set")
  THEN LET r == CloneItems(h, h[input.a].s, <<>>)
       IN  IF ~r.ok THEN [h |-> h, v |-> Undef, ok |-> FALSE]
           ELSE [h |-> Append(r.h, SetOf(r.s)), v |-> Ref(Len(r.h) + 1), ok |-> TRUE]
  ELSE IF InstanceOf(h, input, "Map")
  THEN LET r == CloneEntries(h, h[input.a].s, <<>>)
       IN  IF ~r.ok THEN [h |-> h, v |-> Undef, ok |-> FALSE]
           ELSE [h |-> Append(r.h, MapOf(r.s)), v |-> Ref(Len(r.h) + 1), ok |-> TRUE]
  ELSE IF TypeofObject(input)
  THEN LET m == IF input.k = "ref" THEN h[input.a].m ELSE NoProps
           r == CloneFields(h, m, DOMAIN m, NoProps)
       IN  IF ~r.ok THEN [h |-> h, v |-> Undef, ok |-> FALSE]
           ELSE [h |-> Append(r.h, ObjectOf("Object", r.m)),
                 v |-> Ref(Len(r.h) + 1), ok |-> TRUE]
  ELSE [h |-> h, v |-> input, ok |-> TRUE]

\* ------------------------------------------------- value equality, reachability

RECURSIVE Deep(_, _)
\* The value v stands for in heap h, with every reference replaced by the content
\* of the object it points to: two values are value-equal when their Deep are equal.
Deep(h, v) ==
  IF v.k = "ref"
  THEN LET o == h[v.a]
       IN  [k |-> o.cls, a |-> 0, s |-> "",
            m |-> [x \in DOMAIN o.m |-> Deep(h, o.m[x])],
            items |-> [i \in DOMAIN o.s |-> Deep(h, o.s[i])]]
  ELSE [k |-> v.k, a |-> v.a, s |-> v.s, m |-> NoProps, items |-> <<>>]

RECURSIVE Reach(_, _)
\* The addresses of the objects reachable from value v in heap h.
Reach(h, v) ==
  IF v.k = "ref"
  THEN LET o == h[v.a]
       IN  {v.a} \cup UNION {Reach(h, o.m[x]) : x \in DOMAIN o.m}
                 \cup UNION {Reach(h, o.s[i]) : i \in DOMAIN o.s}
  ELSE {}

\* ------------------------------------------------- validators, transformers

\* new Error(message): the error with the name of its constructor and its message.
NewError(message) == [name |-> "Error", message |-> message]
NoError == [name |-> "", message |-> ""]

\* The validator functions a caller installs, by name, and what each returns:
\* true, one Error (in e), or an array of Errors (in errs).
ValidatorIds == {"valid", "oneError", "twoErrors", "noErrors"}

NoReturn == [k |-> "none", e |-> NoError, errs |-> <<>>]

ValidatorReturn(id) ==
  CASE id = "valid" -> [k |-> "true", e |-> NoError, errs |-> <<>>]
    [] id = "oneError" -> [k |-> "error", e |-> NewError("Invalid DTO object"), errs |-> <<>>]
    [] id = "twoErrors" ->
         [k |-> "array", e |-> NoError,
          errs |-> <<NewError("Invalid Foo"), NewError("Invalid Bar")>>]
    [] id = "noErrors" -> [k |-> "array", e |-> NoError, errs |-> <<>>]

\* The transformer functions a caller installs, by name.
TransformerIds == {"toTestDto"}

\* transform(dto) of the tests: obj = new TestDto(); Object.assign(obj, dto); return obj.
Transform(id, h, a) ==
  [h |-> Append(h, ObjectOf("TestDto", ObjectAssign(NoProps, h[a].m))), a |-> Len(h) + 1]

\* this.validationErrors of DtoValidationFailedException: the array the validator
\* returned, or the one error wrapped in an array.
validationErrorsFirstOnly(validationError) ==
  IF validationError.k = "array"
  THEN IF validationError.errs = <<>> THEN <<>> ELSE <<validationError.errs[1]>>
  ELSE <<validationError.e>>

validationErrors(validationError) ==
  IF validationError.k = "array" THEN validationError.errs ELSE <<validationError.e>>

RECURSIVE Join(_, _)
\* Array.prototype.join(separator) on an array of strings.
Join(strs, separator) ==
  IF strs = <<>> THEN ""
  ELSE IF Len(strs) = 1 THEN strs[1]
  ELSE strs[1] \o separator \o Join(Tail(strs), separator)

\* A mutant of validationErrorMessage: the messages alone, with no constructor name.
validationErrorMessageUntagged(validationError) ==
  IF validationError.k = "array"
  THEN Join([i \in DOMAIN validationError.errs |-> validationError.errs[i].message],
            "\n\t")
  ELSE validationError.e.message

\* validationErrorMessage of the exception's constructor: for an array, each error
\* as `[${error.constructor.name}]: ${error.message}`, joined with '\n\t'; for one
\* error, its message.
validationErrorMessage(validationError) ==
  IF validationError.k = "array"
  THEN Join([i \in DOMAIN validationError.errs |->
               "[" \o validationError.errs[i].name \o "]: "
                   \o validationError.errs[i].message],
            "\n\t")
  ELSE validationError.e.message

\* The message given to super(...) by the exception's constructor.
ExceptionMessage(validationError) ==
  "Cannot build a DTO. Validation failed!\n\t" \o validationErrorMessage(validationError)

\* ---------------------------------------------------------------- builders

\* new DtoBuilder(initData) ("class") keeps the caller's object as initData and
\* works on a deep clone of it; createBuilder(initData) ("fn") works on the
\* caller's object itself. Neither has a validator or a transformer at first.
\* origin, via and origData record where the builder comes from: the builder it
\* was made from and by which operation, and the data it started from, by value.
\* own holds the names of the methods a subtype of the class declares (none for
\* DtoBuilder itself and for createBuilder).
Construct(impl, h, initData, origin, via) ==
  LET c == deepClone(h, Ref(initData))
  IN  IF impl = "class"
      THEN [h |-> c.h, ok |-> c.ok,
            b |-> [impl |-> impl, dto |-> c.v.a, initData |-> initData,
                   validator |-> "none", transformer |-> "none",
                   origin |-> origin, via |-> via,
                   origData |-> Deep(h, Ref(initData)), own |-> {}]]
      ELSE [h |-> h, ok |-> TRUE,
            b |-> [impl |-> impl, dto |-> initData, initData |-> 0,
                   validator |-> "none", transformer |-> "none",
                   origin |-> origin, via |-> via,
                   origData |-> Deep(h, Ref(initData)), own |-> {}]]

\* The methods the class declares (found on the target through its prototype).
ClassMethods ==
  {N_set, N_patch, N_get, N_clone, N_reset, N_useValidator, N_getValidator,
   N_useTransformer, N_getTransformer, N_build}

\* The functions of the `base` object of createBuilder.
FnMethods == {N_clone, N_extend, N_patch, N_useValidator, N_useTransformer, N_build}

\* Functions every object inherits from Object.prototype.
ObjectPrototypeMethods == {N_toString}

\* A mutant of HasFunctionMember: a name one of the four patterns matches is left
\* to the patterns.
HasFunctionMemberUnlessPattern(bb, prop) ==
  /\ ~prop.sym
  /\ ~(TestAnchored(P_set, prop.str) \/ TestAnchored(P_get, prop.str)
        \/ TestUnanchored(P_add, prop.str) \/ TestUnanchored(P_count, prop.str))
  /\ \/ prop.str \in ObjectPrototypeMethods
     \/ bb.impl = "class" /\ prop.str \in ClassMethods \cup bb.own
     \/ bb.impl = "fn" /\ prop.str \in FnMethods

\* prop in baseObj && typeof baseObj[prop] === 'function'. The target of the class
\* also has the data properties validator and transformer, which hold a function
\* once one is installed.
HasFunctionMember(bb, prop) ==
  /\ ~prop.sym
  /\ \/ prop.str \in ObjectPrototypeMethods
     \/ bb.impl = "class" /\ prop.str \in ClassMethods \cup bb.own
     \/ bb.impl = "fn" /\ prop.str \in FnMethods
     \/ bb.impl = "class" /\ prop.str = N_validator /\ bb.validator # "none"
     \/ bb.impl = "class" /\ prop.str = N_transformer /\ bb.transformer # "none"

\* Steps 3 to 6 of the get trap and its final throw: the four regular expressions
\* in the order of the code.
ResolveName(name) ==
  IF TestAnchored(P_set, name) THEN [kind |-> "setter", key |-> extractKey(P_set, name)]
  ELSE IF TestAnchored(P_get, name)
       THEN [kind |-> "getter", key |-> extractKey(P_get, name)]
  ELSE IF TestUnanchored(P_add, name)
       THEN [kind |-> "add", key |-> extractKey(P_add, name)]
  ELSE IF TestUnanchored(P_count, name)
       THEN [kind |-> "count", key |-> extractKey(P_count, name)]
  ELSE [kind |-> "unknownError", key |-> <<>>]

\* Every member name of the model, and ResolveName of each (computed once).
Names ==
  {N_foo, N_validator, N_transformer, N_setFoo, N_getFoo, N_addFoo, N_countFoo,
   N_setFooBar, N_getFooBar, N_addFooBar, N_countFooBar, N_setPreaddFoo, N_getPreaddFoo,
   N_addPreaddFoo, N_countPreaddFoo, N_setValidator, N_getValidator, N_getTransformer,
   N_useValidator, N_useTransformer, N_preaddFoo, N_toString, N_set, N_get,
   N_patch, N_clone, N_extend, N_reset, N_build}

Resolved == [name \in Names |-> ResolveName(name)]

\* A mutant of Resolve: no symbol check, a symbol is matched by its description.
ResolveNoSymbolCheck(bb, prop) ==
  IF HasFunctionMember(bb, prop) THEN [kind |-> "member", key |-> prop.str]
  ELSE Resolved[prop.str]

\* The get trap of the proxy: what the member name resolves to, in the order of
\* the code: a function member of the target (step 1), the symbol check (step 2),
\* then the patterns.
Resolve(bb, prop) ==
  IF HasFunctionMember(bb, prop) THEN [kind |-> "member", key |-> prop.str]
  ELSE IF prop.sym THEN [kind |-> "symbolError", key |-> <<>>]
  ELSE Resolved[prop.str]

\* A mutant of Wrap: the result of the method is handed out as it is.
WrapNothing(b, result) == result

\* result === baseObj ? proxy : result
Wrap(b, result) == IF result = Target(b) THEN Proxy(b) ELSE result

\* What a method that returns the builder hands to the caller: the class returns
\* `this` and the proxy wrapper rewrites it; createBuilder returns `builder`.
Chain(bb, b) == IF bb.impl = "class" THEN Wrap(b, Target(b)) ELSE Proxy(b)

\* ------------------------------------------------------------------ inputs

\* An argument of a call: a scalar, or a literal the caller writes at the call (a
\* new object, which the caller keeps a reference to).
Scalar(v) == [lit |-> FALSE, v |-> v, o |-> ArrayOf(<<>>)]
Literal(o) == [lit |-> TRUE, v |-> Undef, o |-> o]

\* The heap with the argument's literal added, and the value passed.
Materialise(h, arg) ==
  IF arg.lit THEN [h |-> Append(h, arg.o), v |-> Ref(Len(h) + 1), new |-> {Len(h) + 1}]
  ELSE [h |-> h, v |-> arg.v, new |-> {}]

\* The calls of generated setters: the member name and the value given.
SetterCalls ==
  {<<StrProp(N_setFoo), Scalar(Str("baz"))>>,
   <<StrProp(N_setFoo), Scalar(Null)>>,
   <<StrProp(N_setFoo), Literal(ArrayOf(<<Str("bar")>>))>>,
   <<StrProp(N_setValidator), Scalar(Str("bar"))>>,
   <<SymProp(N_setFoo), Scalar(Str("baz"))>>}

\* The calls of generated add methods: the member name and the arguments given.
AddCalls ==
  {<<StrProp(N_addFoo), <<Str("baz")>>>>,
   <<StrProp(N_addFoo), <<Str("bar"), Str("baz")>>>>,
   <<StrProp(N_preaddFoo), <<Str("baz")>>>>}

\* The member names the caller resolves on the wrapper and calls with no argument.
Props ==
  {StrProp(N_getFoo), StrProp(N_countFoo), StrProp(N_getValidator),
   StrProp(N_foo), StrProp(N_validator), SymProp(N_setFoo)}

\* The values given to set(key, value).
SetArgs == {Scalar(Str("bar"))}

\* The records given to set(wholeRecord), patch, extend and build.
RecordArgs == {Literal(ObjectOf("Object", N_foo :> Str("baz")))}

\* No argument given: the parameter's default applies.
NoArg == Scalar(Undef)

\* The initial data D given to the factory, as the caller's heap and D's address:
\* {} / {foo: ['bar']} / {foo: {foo: null}}.
InitialData ==
  {[h |-> <<ObjectOf("Object", NoProps)>>, d |-> 1],
   [h |-> <<ArrayOf(<<Str("bar")>>), ObjectOf("Object", N_foo :> Ref(1))>>, d |-> 2],
   [h |-> <<ObjectOf("Object", N_foo :> Null),
            ObjectOf("Object", N_foo :> Ref(1))>>, d |-> 2]}

\* -------------------------------------------------------------------- state

\* last: the last call, with the builder it was made on (0: none), the member
\*   name resolved, what the name resolved to, the arguments, how the call ended
\*   ("returned" or "TypeError") and the value returned.
\* built: the outcome of the last build(): the Either's tag, the payload (the
\*   address of the finished object, in a Left the exception's dto), the
\*   exception's validationErrors and message, the address of the merged data,
\*   the hooks invoked in order with their arguments, and what the validator
\*   returned.
Call(b, prop, kind, args, out, ret) ==
  [b |-> b, prop |-> prop, kind |-> kind, args |-> args, out |-> out, ret |-> ret]

NotBuilt ==
  [tag |-> "none", b |-> 0, payload |-> 0, errors |-> <<>>, message |-> "",
   merged |-> 0, hooks |-> <<>>, returned |-> NoReturn]

Live == DOMAIN builders

Tick == steps < MaxSteps /\ steps' = steps + 1

Init ==
  \E impl \in {"class", "fn"}, D \in InitialData :
    LET c == Construct(impl, D.h, D.d, 0, "create")
    IN  /\ heap = c.h
        /\ builders = <<c.b>>
        /\ held = DOMAIN D.h
        /\ last = Call(1, NoProp, "create", <<Ref(D.d)>>, "returned", Proxy(1))
        /\ built = NotBuilt
        /\ steps = 0

\* ------------------------------------------------------ generated accessors

\* A mutant of DtoBuilder_set: a property already present is kept.
DtoBuilder_setIfAbsent(h, bb, key, value) ==
  IF key \in DOMAIN h[bb.dto].m THEN h
  ELSE WithProps(h, bb.dto, SetProp(h[bb.dto].m, key, value))

\* DtoBuilder.set(key, value): this.dto[key] = value.
DtoBuilder_set(h, bb, key, value) ==
  WithProps(h, bb.dto, SetProp(h[bb.dto].m, key, value))

\* DtoBuilder.get(key): the property when a key is given, the working data otherwise.
DtoBuilder_get(h, bb, key) ==
  IF key # <<>> THEN GetProp(h[bb.dto].m, key) ELSE Ref(bb.dto)

\* A mutant of ProxyAdd: the arguments become the sequence, whatever it held.
ProxyAddStartsAnew(h, bb, key, value) ==
  LET h1 == Append(h, ArrayOf(value))
  IN  [h |-> DtoBuilder_set(h1, bb, key, Ref(Len(h1))), ok |-> TRUE]

\* The add accessor of the class's proxy: arr = target.get(key) ?? []; then
\* arr.push(...value) (a TypeError, ok = FALSE, where arr has no push); then
\* target.set(key, arr).
ProxyAdd(h, bb, key, value) ==
  LET cur == DtoBuilder_get(h, bb, key)
      h1 == Append(h, ArrayOf(value))
  IN  IF Nullish(cur)
      THEN [h |-> DtoBuilder_set(h1, bb, key, Ref(Len(h1))), ok |-> TRUE]
      ELSE IF IsArray(h, cur)
      THEN [h |-> DtoBuilder_set(WithItems(h, cur.a, h[cur.a].s \o value), bb, key, cur),
            ok |-> TRUE]
      ELSE [h |-> h, ok |-> FALSE]

\* The count accessor of the class's proxy: 0 where target.get(key) is falsy, its
\* length property otherwise.
ProxyCount(h, bb, key) ==
  LET arr == DtoBuilder_get(h, bb, key)
  IN  IF Falsy(arr) THEN Num(0)
      ELSE IF IsArray(h, arr) THEN Num(Len(h[arr.a].s))
      ELSE IF arr.k = "string" THEN Num(Len(arr.s))
      ELSE Undef

\* createSetter of createBuilder: dto[propertyKey] = value.
createSetter(h, bb, key, value) ==
  WithProps(h, bb.dto, SetProp(h[bb.dto].m, key, value))

\* createGetter of createBuilder: dto[propertyKey].
createGetter(h, bb, key) == GetProp(h[bb.dto].m, key)

\* createAddMethod of createBuilder: a value that is no array is replaced by a
\* new empty array, then the arguments are pushed onto the array in place.
createAddMethod(h, bb, key, value) ==
  LET cur == GetProp(h[bb.dto].m, key)
      h1 == Append(h, ArrayOf(value))
  IN  IF ~IsArray(h, cur)
      THEN WithProps(h1, bb.dto, SetProp(h1[bb.dto].m, key, Ref(Len(h1))))
      ELSE WithItems(h, cur.a, h[cur.a].s \o value)

\* createCountMethod of createBuilder.
createCountMethod(h, bb, key) ==
  LET cur == GetProp(h[bb.dto].m, key)
  IN  IF ~IsArray(h, cur) THEN Num(0) ELSE Num(Len(h[cur.a].s))

\* What the generated getter of either builder returns: target.get(key) in the
\* class's proxy, createGetter(key)() in createBuilder.
GeneratedGetter(h, bb, key) ==
  IF bb.impl = "class" THEN DtoBuilder_get(h, bb, key) ELSE createGetter(h, bb, key)

\* What the generated count accessor of either builder returns.
GeneratedCount(h, bb, key) ==
  IF bb.impl = "class" THEN ProxyCount(h, bb, key) ELSE createCountMethod(h, bb, key)

\* DtoBuilder.getValidator(): this.validator.
DtoBuilder_getValidator(bb) ==
  IF bb.validator = "none" THEN Undef ELSE Fn(bb.validator)

\* DtoBuilder.getTransformer(): this.transformer.
DtoBuilder_getTransformer(bb) ==
  IF bb.transformer = "none" THEN Undef ELSE Fn(bb.transformer)

\* ---------------------------------------------------------------- operations

\* DtoBuilder.clone(): this.constructor.create(deepClone(this.dto)), a builder of
\* the class of this one, then the transformer and the validator of this builder
\* are installed on the clone. The clone's origData is the working data of this
\* builder at the call.
DtoBuilder_clone(h, bb, b) ==
  LET c == deepClone(h, Ref(bb.dto))
      n == Construct("class", c.h, c.v.a, b, "clone")
  IN  IF ~c.ok THEN [h |-> h, ok |-> FALSE, b |-> bb]
      ELSE [h |-> n.h, ok |-> n.ok,
            b |-> [n.b EXCEPT !.transformer = bb.transformer,
                              !.validator = bb.validator,
                              !.origData = Deep(h, Ref(bb.dto)),
                              !.own = bb.own]]

\* clone() of createBuilder: createBuilder({ ...dto }).
clone(h, bb, b) ==
  LET h1 == Append(h, ObjectOf("Object", ObjectAssign(NoProps, h[bb.dto].m)))
  IN  Construct("fn", h1, Len(h1), b, "clone")

\* extend(override) of createBuilder: createBuilder({ ...dto, ...override }).
extend(h, bb, b, override) ==
  LET h1 == Append(h, ObjectOf("Object",
                     ObjectAssign(ObjectAssign(NoProps, h[bb.dto].m), override)))
  IN  Construct("fn", h1, Len(h1), b, "extend")

\* A mutant of DtoBuilder_patch: the working data becomes the override.
DtoBuilder_patchReplaces(h, bb, override) ==
  WithProps(h, bb.dto, override)

\* DtoBuilder.patch(override): Object.assign(this.dto, override).
DtoBuilder_patch(h, bb, override) ==
  WithProps(h, bb.dto, ObjectAssign(h[bb.dto].m, override))

\* patch(override) of createBuilder: Object.assign(dto, override).
patch(h, bb, override) ==
  WithProps(h, bb.dto, ObjectAssign(h[bb.dto].m, override))

\* DtoBuilder.reset(): this.dto = deepClone(this.initData).
DtoBuilder_reset(h, bb) ==
  LET c == deepClone(h, Ref(bb.initData))
  IN  [h |-> c.h, ok |-> c.ok, b |-> IF c.ok THEN [bb EXCEPT !.dto = c.v.a] ELSE bb]

\* A mutant of Outcome: the validator runs first, and the transformer only where
\* the validation passed.
OutcomeValidatorFirst(b, bb, dtoData, dtoObj, validatorArg) ==
  LET ret == IF bb.validator # "none" THEN ValidatorReturn(bb.validator) ELSE NoReturn
      failed == bb.validator # "none" /\ ret.k # "true"
  IN  [tag |-> IF failed THEN "Left" ELSE "Right",
       b |-> b,
       payload |-> dtoObj,
       errors |-> IF failed THEN validationErrors(ret) ELSE <<>>,
       message |-> IF failed THEN ExceptionMessage(ret) ELSE "",
       merged |-> dtoData,
       hooks |-> (IF bb.validator # "none"
                  THEN <<[fn |-> "validator", arg |-> validatorArg]>> ELSE <<>>)
                 \o (IF bb.transformer # "none" /\ ~failed
                     THEN <<[fn |-> "transformer", arg |-> dtoData]>> ELSE <<>>),
       returned |-> ret]

\* The Either returned by build, as the record kept in `built`.
Outcome(b, bb, dtoData, dtoObj, validatorArg) ==
  LET ret == IF bb.validator # "none" THEN ValidatorReturn(bb.validator) ELSE NoReturn
      failed == bb.validator # "none" /\ ret.k # "true"
  IN  [tag |-> IF failed THEN "Left" ELSE "Right",
       b |-> b,
       payload |-> dtoObj,
       errors |-> IF failed THEN validationErrors(ret) ELSE <<>>,
       message |-> IF failed THEN ExceptionMessage(ret) ELSE "",
       merged |-> dtoData,
       hooks |-> (IF bb.transformer # "none"
                  THEN <<[fn |-> "transformer", arg |-> dtoData]>> ELSE <<>>)
                 \o (IF bb.validator # "none"
                     THEN <<[fn |-> "validator", arg |-> validatorArg]>> ELSE <<>>),
       returned |-> ret]

\* A mutant of DtoBuilder_build: the override is assigned to the working data.
DtoBuilder_buildInPlace(h, bb, b, override) ==
  LET h1 == WithProps(h, bb.dto, ObjectAssign(h[bb.dto].m, override))
      h2 == Append(h1, ObjectOf("Object", ObjectAssign(NoProps, h1[bb.dto].m)))
      dtoData == Len(h2)
      t == IF bb.transformer # "none" THEN Transform(bb.transformer, h2, dtoData)
           ELSE [h |-> h2, a |-> dtoData]
  IN  [h |-> t.h, built |-> Outcome(b, bb, dtoData, t.a, t.a)]

\* DtoBuilder.build(override): the validator is called with dtoObj, the object
\* the transformer returned.
DtoBuilder_build(h, bb, b, override) ==
  LET h1 == Append(h, ObjectOf("Object",
                     ObjectAssign(ObjectAssign(NoProps, h[bb.dto].m), override)))
      dtoData == Len(h1)
      t == IF bb.transformer # "none" THEN Transform(bb.transformer, h1, dtoData)
           ELSE [h |-> h1, a |-> dtoData]
  IN  [h |-> t.h, built |-> Outcome(b, bb, dtoData, t.a, t.a)]

\* build(override) of createBuilder: the validator is called with dtoData, the
\* merged data.
build(h, bb, b, override) ==
  LET h1 == Append(h, ObjectOf("Object",
                     ObjectAssign(ObjectAssign(NoProps, h[bb.dto].m), override)))
      dtoData == Len(h1)
      t == IF bb.transformer # "none" THEN Transform(bb.transformer, h1, dtoData)
           ELSE [h |-> h1, a |-> dtoData]
  IN  [h |-> t.h, built |-> Outcome(b, bb, dtoData, t.a, dtoData)]

\* ------------------------------------------------------------------ actions

\* Whether the name resolves to the builder operation of that name.
IsMethod(bb, name) ==
  /\ Resolve(bb, StrProp(name)).kind = "member"
  /\ name \in (IF bb.impl = "class" THEN ClassMethods ELSE FnMethods)

\* b.set<F>(value) through the wrapper.
CallSetter(b, prop, arg) ==
  LET bb == builders[b]
      r == Resolve(bb, prop)
      a == Materialise(heap, arg)
  IN  /\ Tick
      /\ r.kind = "setter"
      /\ heap' = IF bb.impl = "class" THEN DtoBuilder_set(a.h, bb, r.key, a.v)
                 ELSE createSetter(a.h, bb, r.key, a.v)
      /\ held' = held \cup a.new
      /\ last' = Call(b, prop, r.kind, <<a.v>>, "returned", Proxy(b))
      /\ UNCHANGED <<builders, built>>

\* b.get<F>() through the wrapper.
CallGetter(b, prop) ==
  LET bb == builders[b]
      r == Resolve(bb, prop)
  IN  /\ Tick
      /\ r.kind = "getter"
      /\ last' = Call(b, prop, r.kind, <<>>, "returned", GeneratedGetter(heap, bb, r.key))
      /\ UNCHANGED <<heap, builders, held, built>>

\* b.add<F>(...value) through the wrapper.
CallAdd(b, prop, value) ==
  LET bb == builders[b]
      r == Resolve(bb, prop)
      c == ProxyAdd(heap, bb, r.key, value)
  IN  /\ Tick
      /\ r.kind = "add"
      /\ IF bb.impl = "class"
         THEN /\ heap' = c.h
              /\ last' = Call(b, prop, r.kind, value,
                              IF c.ok THEN "returned" ELSE "TypeError",
                              IF c.ok THEN Proxy(b) ELSE Undef)
         ELSE /\ heap' = createAddMethod(heap, bb, r.key, value)
              /\ last' = Call(b, prop, r.kind, value, "returned", Proxy(b))
      /\ UNCHANGED <<builders, held, built>>

\* b.count<F>() through the wrapper.
CallCount(b, prop) ==
  LET bb == builders[b]
      r == Resolve(bb, prop)
  IN  /\ Tick
      /\ r.kind = "count"
      /\ last' = Call(b, prop, r.kind, <<>>, "returned", GeneratedCount(heap, bb, r.key))
      /\ UNCHANGED <<heap, builders, held, built>>

\* Resolving a symbol key that is no member of the target: the TypeError of step 2.
ResolveSymbol(b, prop) ==
  /\ Tick
  /\ Resolve(builders[b], prop).kind = "symbolError"
  /\ last' = Call(b, prop, "symbolError", <<>>, "TypeError", Undef)
  /\ UNCHANGED <<heap, builders, held, built>>

\* Resolving a name no step of the get trap accepts: the final TypeError.
ResolveUnknown(b, prop) ==
  /\ Tick
  /\ Resolve(builders[b], prop).kind = "unknownError"
  /\ last' = Call(b, prop, "unknownError", <<>>, "TypeError", Undef)
  /\ UNCHANGED <<heap, builders, held, built>>

\* Resolving and calling a function member of the target that is no builder
\* operation: toString of Object.prototype, or the function held by the data
\* property validator or transformer of the class.
CallInherited(b, prop) ==
  LET bb == builders[b]
      mine == IF bb.impl = "class" THEN ClassMethods \cup bb.own ELSE FnMethods
  IN  /\ Tick
      /\ Resolve(bb, prop).kind = "member"
      /\ prop.str \notin mine
      /\ last' = Call(b, prop, "member", <<>>, "returned",
                      IF prop.str = N_toString THEN Str("[object Object]")
                      ELSE IF prop.str = N_validator
                      THEN Str(ValidatorReturn(bb.validator).k)
                      ELSE Wrap(b, Ref(Len(heap))))
      /\ UNCHANGED <<heap, builders, held, built>>

\* b.set(key, value) of the class.
CallSet(b, key, arg) ==
  LET bb == builders[b]
      a == Materialise(heap, arg)
  IN  /\ Tick
      /\ IsMethod(bb, N_set)
      /\ heap' = DtoBuilder_set(a.h, bb, key, a.v)
      /\ held' = held \cup a.new
      /\ last' = Call(b, StrProp(N_set), "member", <<a.v>>, "returned",
                      Wrap(b, Target(b)))
      /\ UNCHANGED <<builders, built>>

\* b.set(wholeRecord) of the class: typeof keyOrValue === 'object', this.dto = keyOrValue.
CallSetWhole(b, arg) ==
  LET bb == builders[b]
      a == Materialise(heap, arg)
  IN  /\ Tick
      /\ IsMethod(bb, N_set)
      /\ TypeofObject(a.v) /\ a.v.k = "ref"
      /\ heap' = a.h
      /\ builders' = [builders EXCEPT ![b].dto = a.v.a]
      /\ held' = held \cup a.new
      /\ last' = Call(b, StrProp(N_set), "member", <<a.v>>, "returned",
                      Wrap(b, Target(b)))
      /\ UNCHANGED built

\* b.get() and b.get(key) of the class (key <<>>: no key given).
CallGet(b, key) ==
  LET bb == builders[b]
  IN  /\ Tick
      /\ IsMethod(bb, N_get)
      /\ last' = Call(b, StrProp(N_get), "member", <<>>, "returned",
                      Wrap(b, DtoBuilder_get(heap, bb, key)))
      /\ UNCHANGED <<heap, builders, held, built>>

\* b.patch(override): Object.assign(dto, override), in both builders.
CallPatch(b, arg) ==
  LET bb == builders[b]
      a == Materialise(heap, arg)
  IN  /\ Tick
      /\ IsMethod(bb, N_patch)
      /\ a.v.k = "ref"
      /\ heap' = IF bb.impl = "class" THEN DtoBuilder_patch(a.h, bb, a.h[a.v.a].m)
                 ELSE patch(a.h, bb, a.h[a.v.a].m)
      /\ held' = held \cup a.new
      /\ last' = Call(b, StrProp(N_patch), "member", <<a.v>>, "returned", Chain(bb, b))
      /\ UNCHANGED <<builders, built>>

\* b.clone(), in both builders.
CallClone(b) ==
  LET bb == builders[b]
      c == IF bb.impl = "class" THEN DtoBuilder_clone(heap, bb, b) ELSE clone(heap, bb, b)
  IN  /\ Tick
      /\ IsMethod(bb, N_clone)
      /\ Len(builders) < MaxBuilders
      /\ IF c.ok
         THEN /\ heap' = c.h
              /\ builders' = Append(builders, c.b)
              /\ last' = Call(b, StrProp(N_clone), "member", <<>>, "returned",
                              Wrap(b, Proxy(Len(builders) + 1)))
         ELSE /\ UNCHANGED <<heap, builders>>
              /\ last' = Call(b, StrProp(N_clone), "member", <<>>, "TypeError", Undef)
      /\ UNCHANGED <<held, built>>

\* b.extend(override) of createBuilder (no argument: the default {}).
CallExtend(b, arg) ==
  LET bb == builders[b]
      a == Materialise(heap, arg)
      c == extend(a.h, bb, b, IF a.v.k = "ref" THEN a.h[a.v.a].m ELSE NoProps)
  IN  /\ Tick
      /\ IsMethod(bb, N_extend)
      /\ Len(builders) < MaxBuilders
      /\ heap' = c.h
      /\ builders' = Append(builders, c.b)
      /\ held' = held \cup a.new
      /\ last' = Call(b, StrProp(N_extend), "member", <<a.v>>, "returned",
                      Proxy(Len(builders) + 1))
      /\ UNCHANGED built

\* b.reset() of the class.
CallReset(b) ==
  LET bb == builders[b]
      c == DtoBuilder_reset(heap, bb)
  IN  /\ Tick
      /\ IsMethod(bb, N_reset)
      /\ heap' = c.h
      /\ builders' = [builders EXCEPT ![b] = c.b]
      /\ last' = Call(b, StrProp(N_reset), "member", <<>>,
                      IF c.ok THEN "returned" ELSE "TypeError",
                      IF c.ok THEN Wrap(b, Target(b)) ELSE Undef)
      /\ UNCHANGED <<held, built>>

\* A mutant of CallUseValidator: a call with no function leaves the validator.
CallUseValidatorKeeps(b, id) ==
  LET bb == builders[b]
  IN  /\ Tick
      /\ IsMethod(bb, N_useValidator)
      /\ builders' = [builders EXCEPT ![b].validator = IF id = "none" THEN @ ELSE id]
      /\ last' = Call(b, StrProp(N_useValidator), "member",
                      <<IF id = "none" THEN Undef ELSE Fn(id)>>, "returned", Chain(bb, b))
      /\ UNCHANGED <<heap, held, built>>

\* b.useValidator(validatorFn): "none" stands for no function given.
CallUseValidator(b, id) ==
  LET bb == builders[b]
  IN  /\ Tick
      /\ IsMethod(bb, N_useValidator)
      /\ builders' = [builders EXCEPT ![b].validator = id]
      /\ last' = Call(b, StrProp(N_useValidator), "member",
                      <<IF id = "none" THEN Undef ELSE Fn(id)>>, "returned", Chain(bb, b))
      /\ UNCHANGED <<heap, held, built>>

\* b.useTransformer(transformerFn): "none" stands for no function given.
CallUseTransformer(b, id) ==
  LET bb == builders[b]
  IN  /\ Tick
      /\ IsMethod(bb, N_useTransformer)
      /\ builders' = [builders EXCEPT ![b].transformer = id]
      /\ last' = Call(b, StrProp(N_useTransformer), "member",
                      <<IF id = "none" THEN Undef ELSE Fn(id)>>, "returned", Chain(bb, b))
      /\ UNCHANGED <<heap, held, built>>

\* b.getValidator() and b.getTransformer() of the class.
CallGetHook(b, name) ==
  LET bb == builders[b]
      result == IF name = N_getValidator THEN DtoBuilder_getValidator(bb)
                ELSE DtoBuilder_getTransformer(bb)
  IN  /\ Tick
      /\ IsMethod(bb, name)
      /\ last' = Call(b, StrProp(name), "member", <<>>, "returned", Wrap(b, result))
      /\ UNCHANGED <<heap, builders, held, built>>

\* b.build(override) (no argument: the default {}), in both builders.
CallBuild(b, arg) ==
  LET bb == builders[b]
      a == Materialise(heap, arg)
      override == IF a.v.k = "ref" THEN a.h[a.v.a].m ELSE NoProps
      r == IF bb.impl = "class" THEN DtoBuilder_build(a.h, bb, b, override)
           ELSE build(a.h, bb, b, override)
  IN  /\ Tick
      /\ IsMethod(bb, N_build)
      /\ heap' = r.h
      /\ built' = r.built
      /\ held' = held \cup a.new
      /\ last' = Call(b, StrProp(N_build), "member", <<a.v>>, "returned",
                      [k |-> "either", a |-> r.built.payload, s |-> r.built.tag])
      /\ UNCHANGED builders

\* The caller writes a property of a record it created.
CallerWrite(a, key, v) ==
  /\ Tick
  /\ a \in held
  /\ heap[a].cls = "Object"
  /\ heap' = WithProps(heap, a, SetProp(heap[a].m, key, v))
  /\ last' = Call(0, NoProp, "callerWrite", <<Ref(a), v>>, "returned", Undef)
  /\ UNCHANGED <<builders, held, built>>

\* The caller pushes onto an array it created.
CallerPush(a, v) ==
  /\ Tick
  /\ a \in held
  /\ heap[a].cls = "Array"
  /\ heap' = WithItems(heap, a, Append(heap[a].s, v))
  /\ last' = Call(0, NoProp, "callerPush", <<Ref(a), v>>, "returned", Undef)
  /\ UNCHANGED <<builders, held, built>>

Next ==
  \/ \E b \in Live, c \in SetterCalls : CallSetter(b, c[1], c[2])
  \/ \E b \in Live, prop \in Props : CallGetter(b, prop)
  \/ \E b \in Live, c \in AddCalls : CallAdd(b, c[1], c[2])
  \/ \E b \in Live, prop \in Props : CallCount(b, prop)
  \/ \E b \in Live, prop \in Props : ResolveSymbol(b, prop)
  \/ \E b \in Live, prop \in Props : ResolveUnknown(b, prop)
  \/ \E b \in Live, prop \in Props : CallInherited(b, prop)
  \/ \E b \in Live, arg \in SetArgs : CallSet(b, N_foo, arg)
  \/ \E b \in Live, arg \in RecordArgs : CallSetWhole(b, arg)
  \/ \E b \in Live : CallGet(b, <<>>)
  \/ \E b \in Live, arg \in RecordArgs : CallPatch(b, arg)
  \/ \E b \in Live : CallClone(b)
  \/ \E b \in Live, arg \in RecordArgs \cup {NoArg} : CallExtend(b, arg)
  \/ \E b \in Live : CallReset(b)
  \/ \E b \in Live, id \in ValidatorIds \cup {"none"} : CallUseValidator(b, id)
  \/ \E b \in Live, id \in TransformerIds \cup {"none"} : CallUseTransformer(b, id)
  \/ \E b \in Live : CallGetHook(b, N_getValidator)
  \/ \E b \in Live, arg \in RecordArgs \cup {NoArg} : CallBuild(b, arg)
  \/ \E a \in DOMAIN heap : CallerWrite(a, N_foo, Str("baz"))
  \/ \E a \in DOMAIN heap : CallerPush(a, Str("baz"))

Spec == Init /\ [][Next]_vars

\* ------------------------------------------------- deepClone called directly

\* The values the caller has at hand before it calls deepClone, each as the
\* caller's heap: those of deep-clone.spec.ts, and the same containers holding
\* null, a function, or a record as the key of a Map.
CloneInputs ==
  {<<ObjectOf("Object", N_foo :> Str("bar"))>>,
   <<ObjectOf("Object", N_bar :> Str("baz")), ObjectOf("Object", N_foo :> Ref(1))>>,
   <<DateOf(0), ObjectOf("Object", N_foo :> Ref(1))>>,
   <<RegExpOf("bar", ""), ObjectOf("Object", N_foo :> Ref(1))>>,
   <<SetOf(<<Str("bar")>>), ObjectOf("Object", N_foo :> Ref(1))>>,
   <<MapOf(<<Str("bar"), Str("baz")>>), ObjectOf("Object", N_foo :> Ref(1))>>,
   <<ObjectOf("Object", N_bar :> Str("baz")), ArrayOf(<<Ref(1), Str("qux")>>),
     ObjectOf("Object", N_foo :> Ref(2))>>,
   <<ArrayOf(<<Str("bar")>>), SetOf(<<Ref(1)>>), ObjectOf("Object", N_foo :> Ref(2))>>,
   <<ArrayOf(<<Str("baz")>>), MapOf(<<Str("bar"), Ref(1)>>),
     ObjectOf("Object", N_foo :> Ref(2))>>,
   <<ObjectOf("Object", N_foo :> Fn("noop"))>>,
   <<ObjectOf("Object", N_bar :> Str("baz")), MapOf(<<Ref(1), Str("qux")>>)>>,
   <<SetOf(<<Fn("noop")>>), MapOf(<<Str("bar"), Fn("noop")>>)>>,
   <<ArrayOf(<<Null, Bool(TRUE), Num(42)>>)>>}

\* The values the caller writes into its records and lists.
CloneWrites == {Null, Fn("noop")}

\* The scalars and the function the caller gives to deepClone as they are.
CloneScalars == {Str("foo"), Num(42), Bool(FALSE), Null, Undef, Fn("noop")}

CloneInit ==
  \E h \in CloneInputs :
    /\ heap = h
    /\ builders = <<>>
    /\ held = DOMAIN h
    /\ last = Call(0, NoProp, "none", <<>>, "returned", Undef)
    /\ built = NotBuilt
    /\ steps = 0

\* deepClone(v) called by the caller on a value it holds.
CallDeepClone(v) ==
  LET r == deepClone(heap, v)
  IN  /\ Tick
      /\ v.k = "ref" => v.a \in held
      /\ heap' = r.h
      /\ last' = Call(0, NoProp, "deepClone", <<v>>,
                      IF r.ok THEN "returned" ELSE "TypeError", r.v)
      /\ UNCHANGED <<builders, held, built>>

CloneNext ==
  \/ \E v \in CloneScalars \cup {Ref(a) : a \in held} : CallDeepClone(v)
  \/ \E a \in held, v \in CloneWrites : CallerWrite(a, N_foo, v)
  \/ \E a \in held, v \in CloneWrites : CallerPush(a, v)

CloneSpec == CloneInit /\ [][CloneNext]_vars

\* ------------------------------------------------- a subtype of DtoBuilder

\* String.prototype.toUpperCase on the strings the callers give.
toUpperCase(s) ==
  CASE s = "bar" -> "BAR"
    [] s = "baz" -> "BAZ"
    [] OTHER -> s

\* class TestBuilder extends DtoBuilder { setFoo(value) { return super.set('foo',
\* value.toUpperCase()) } }: a TypeError (ok = FALSE) where value is no string.
TestBuilder_setFoo(h, bb, value) ==
  IF value.k = "string"
  THEN [h |-> DtoBuilder_set(h, bb, N_foo, Str(toUpperCase(value.s))), ok |-> TRUE]
  ELSE [h |-> h, ok |-> FALSE]

\* The methods TestBuilder declares.
TestBuilderMethods == {N_setFoo}

\* b.setFoo(value) through the wrapper, where b's class declares setFoo.
CallDeclared(b, prop, arg) ==
  LET bb == builders[b]
      a == Materialise(heap, arg)
      c == TestBuilder_setFoo(a.h, bb, a.v)
  IN  /\ Tick
      /\ Resolve(bb, prop).kind = "member"
      /\ prop.str \in bb.own
      /\ heap' = c.h
      /\ held' = held \cup a.new
      /\ last' = Call(b, prop, "member", <<a.v>>,
                      IF c.ok THEN "returned" ELSE "TypeError",
                      IF c.ok THEN Wrap(b, Target(b)) ELSE Undef)
      /\ UNCHANGED <<builders, built>>

\* TestBuilder.create(initData).
SubtypeInit ==
  \E D \in InitialData :
    LET c == Construct("class", D.h, D.d, 0, "create")
    IN  /\ heap = c.h
        /\ builders = <<[c.b EXCEPT !.own = TestBuilderMethods]>>
        /\ held = DOMAIN D.h
        /\ last = Call(1, NoProp, "create", <<Ref(D.d)>>, "returned", Proxy(1))
        /\ built = NotBuilt
        /\ steps = 0

SubtypeNext ==
  \/ \E b \in Live, c \in SetterCalls : CallDeclared(b, c[1], c[2])
  \/ \E b \in Live, c \in SetterCalls : CallSetter(b, c[1], c[2])
  \/ \E b \in Live, prop \in Props : CallGetter(b, prop)
  \/ \E b \in Live, id \in ValidatorIds \cup {"none"} : CallUseValidator(b, id)
  \/ \E b \in Live : CallGetHook(b, N_getValidator)
  \/ \E b \in Live : CallClone(b)

SubtypeSpec == SubtypeInit /\ [][SubtypeNext]_vars

\* ------------------------------------------- accessors of camel-cased fields

\* The accessors of the fields fooBar and preaddFoo, as the caller calls them: a
\* setter with its value, a getter or a count accessor with no argument, an add
\* accessor with its arguments.
CamelSetterCalls ==
  {<<StrProp(N_setFooBar), Scalar(Str("baz"))>>,
   <<StrProp(N_setPreaddFoo), Literal(ArrayOf(<<Str("bar")>>))>>}

CamelProps ==
  {StrProp(N_getFooBar), StrProp(N_countFooBar), StrProp(N_getPreaddFoo),
   StrProp(N_countPreaddFoo)}

CamelAddCalls ==
  {<<StrProp(N_addFooBar), <<Str("baz")>>>>,
   <<StrProp(N_addPreaddFoo), <<Str("bar"), Str("baz")>>>>,
   <<StrProp(N_countPreaddFoo), <<>>>>}

\* A builder of either implementation on an empty record.
CamelInit ==
  \E impl \in {"class", "fn"} :
    LET c == Construct(impl, <<ObjectOf("Object", NoProps)>>, 1, 0, "create")
    IN  /\ heap = c.h
        /\ builders = <<c.b>>
        /\ held = {1}
        /\ last = Call(1, NoProp, "create", <<Ref(1)>>, "returned", Proxy(1))
        /\ built = NotBuilt
        /\ steps = 0

CamelNext ==
  \/ \E b \in Live, c \in CamelSetterCalls : CallSetter(b, c[1], c[2])
  \/ \E b \in Live, prop \in CamelProps : CallGetter(b, prop)
  \/ \E b \in Live, c \in CamelAddCalls : CallAdd(b, c[1], c[2])
  \/ \E b \in Live, prop \in CamelProps : CallCount(b, prop)
  \/ \E b \in Live : CallBuild(b, NoArg)

CamelSpec == CamelInit /\ [][CamelNext]_vars

\* --------------------------------------------- options given at construction

\* DtoBuilder.create(initData, options) and createBuilder(initData, options): both
\* factories declare the one parameter initData, so a second argument is dropped
\* by the call and the builder is the one made from initData alone.
Create(impl, h, initData, options) == Construct(impl, h, initData, 0, "create")

\* Two builders of one implementation, each on an empty record of its own: the
\* first made with the options { validate: fn }, the second made with no options
\* and given fn by useValidator(fn) at once.
OptionsInit ==
  \E impl \in {"class", "fn"}, id \in ValidatorIds :
    LET h == <<ObjectOf("Object", NoProps), ObjectOf("Object", NoProps)>>
        w == Create(impl, h, 1, [validate |-> id])
        u == Construct(impl, w.h, 2, 0, "create")
    IN  /\ heap = u.h
        /\ builders = <<w.b, [u.b EXCEPT !.validator = id]>>
        /\ held = DOMAIN h
        /\ last = Call(2, StrProp(N_useValidator), "member", <<Fn(id)>>, "returned",
                       Proxy(2))
        /\ built = NotBuilt
        /\ steps = 0

OptionsNext ==
  \/ \E b \in Live, c \in SetterCalls : CallSetter(b, c[1], c[2])
  \/ \E b \in Live, arg \in RecordArgs : CallPatch(b, arg)
  \/ \E b \in Live, arg \in RecordArgs \cup {NoArg} : CallBuild(b, arg)

OptionsSpec == OptionsInit /\ [][OptionsNext]_vars

\* ------------------------------------------------------------------ claims


\* The last call was a generated setter, set<F>(v), that returned.
AfterSetter == last.kind = "setter" /\ last.out = "returned"

\* The name get<F> of the setter name set<F>.
GetterOf(name) == P_get \o SubSeq(name, Len(P_set) + 1, Len(name))

\* What get<F>() returns on builder b in the present state, whatever get<F>
\* resolves to: the generated getter, or the operation of that name.
CallOfGetter(b, name) ==
  LET bb == builders[b]
      r == Resolve(bb, StrProp(name))
  IN  IF r.kind = "getter" THEN GeneratedGetter(heap, bb, r.key)
      ELSE IF r.kind = "member" /\ name = N_getValidator
      THEN Wrap(b, DtoBuilder_getValidator(bb))
      ELSE IF r.kind = "member" /\ name = N_getTransformer
      THEN Wrap(b, DtoBuilder_getTransformer(bb))
      ELSE Undef

\* C1, as stated: in every state reached by set<F>(v), get<F>() on the same
\* wrapper returns v, for every field name. Violated by the class for the field
\* `validator`: getValidator is an operation of the class, found before the
\* getter pattern, and returns the installed validator.
C1_SetThenGet_EveryField ==
  AfterSetter => CallOfGetter(last.b, GetterOf(last.prop.str)) = last.args[1]

\* C1, amended: in every state reached by set<F>(v), where get<F> resolves to the
\* generated getter (no operation of the builder has that name), get<F>() on the
\* same wrapper returns v.
C1_SetThenGet ==
  AfterSetter /\ Resolve(builders[last.b], StrProp(GetterOf(last.prop.str))).kind = "getter"
    => CallOfGetter(last.b, GetterOf(last.prop.str)) = last.args[1]

\* C1's case: after an earlier call, a generated setter of the class has been
\* given a sequence, and the getter of that field is the generated one.
C1_Witness ==
  /\ AfterSetter
  /\ steps >= 2
  /\ last.args[1].k = "ref"
  /\ Resolve(builders[last.b], StrProp(GetterOf(last.prop.str))).kind = "getter"
  /\ builders[last.b].impl = "class"

\* What builder b shows to its caller: the working data by value (what get(),
\* get<F>() and count<F>() return and build() merges) and the two hooks of build.
Observed(b) ==
  [data |-> Deep(heap, Ref(builders[b].dto)),
   validator |-> builders[b].validator,
   transformer |-> builders[b].transformer]

\* c was obtained from b by b.clone() of the DtoBuilder class.
IsCloneOf(c, b) ==
  /\ builders[c].impl = "class"
  /\ builders[c].via = "clone"
  /\ builders[c].origin = b

\* C2: for the DtoBuilder class and c = b.clone(), no call made on c (set,
\* set<F>, add<F>, patch, reset or any other operation) changes what b shows, and
\* no call made on b changes what c shows, nested records and sequences included.
C2_CloneIndependent ==
  [][\A b, c \in Live :
       IsCloneOf(c, b) =>
         /\ last'.b = c => Observed(b)' = Observed(b)
         /\ last'.b = b => Observed(c)' = Observed(c)]_vars

\* C2's case: a clone made of working data that holds a nested container has
\* been given an element by add<F>, and now shows other data than its source.
C2_Witness ==
  \E b, c \in Live :
    /\ IsCloneOf(c, b)
    /\ Cardinality(Reach(heap, Ref(builders[b].dto))) > 1
    /\ last.b = c /\ last.kind = "add" /\ last.out = "returned"
    /\ Observed(c).data # Observed(b).data

\* c was obtained from b by clone() or extend() of createBuilder.
IsDerivedFrom(c, b) ==
  /\ builders[c].impl = "fn"
  /\ builders[c].via \in {"clone", "extend"}
  /\ builders[c].origin = b

\* The mutable containers builder b refers to: its working-data record and every
\* record or sequence reachable from it.
Containers(b) == Reach(heap, Ref(builders[b].dto))

\* C3: for createBuilder, no mutable container is referred to both by a builder
\* and by a builder obtained from it through clone() or extend(). Violated by the
\* code: { ...dto } copies the record only, so a sequence stored in a field is
\* the same object in both builders.
C3_NoSharedContainer ==
  \A b, c \in Live : IsDerivedFrom(c, b) => Containers(b) \cap Containers(c) = {}

\* C3, its consequence: add<F>(x) on the clone or extension never changes what
\* the source builder shows of its working data (get<F>(), count<F>()).
C3_AddOnCloneKeepsSource ==
  [][\A b, c \in Live :
       IsDerivedFrom(c, b) /\ last'.b = c /\ last'.kind = "add"
         => Observed(b)' = Observed(b)]_vars

\* The object D the caller gave to the factory of the first builder: the class
\* keeps it in initData and never assigns initData again; createBuilder binds its
\* working data to it (const dto = initData).
GivenData ==
  IF builders[1].impl = "class" THEN builders[1].initData ELSE builders[1].dto

\* What reset() would make the working data of builder b (the class only).
ResetYield(b) ==
  IF builders[b].impl = "class"
  THEN LET r == DtoBuilder_reset(heap, builders[b]) IN Deep(r.h, Ref(r.b.dto))
  ELSE Deep(heap, Undef)

\* The step is a write of the caller into D or into a container D holds.
CallerWritesGivenData ==
  /\ last'.kind \in {"callerWrite", "callerPush"}
  /\ last'.args[1].a \in Reach(heap, Ref(GivenData))

\* C4: the initial data D is never aliased by the builder: no call on a builder
\* changes D, and no write of the caller into D changes what the builder shows
\* (get(), build()) or what a later reset() yields. Violated by the code: the
\* class keeps D itself as initData, which reset() clones anew, and
\* createBuilder works on D itself.
C4_InitialDataNotAliased ==
  [][/\ last'.b # 0 => Deep(heap', Ref(GivenData)) = Deep(heap, Ref(GivenData))
     /\ CallerWritesGivenData =>
          /\ Observed(1)' = Observed(1)
          /\ ResetYield(1)' = ResetYield(1)]_vars

\* The step is a call of build(o) on builder b.
BuildStep(b) == last'.b = b /\ last'.prop = StrProp(N_build) /\ steps' # steps

\* The override o given to the build of the step ({} where none was given).
OverrideGiven == IF last'.args[1].k = "ref" THEN heap'[last'.args[1].a].m ELSE NoProps

\* m of w and o: the keys of both, with o's value on every key of o.
Merged(w, o) == [x \in DOMAIN w \cup DOMAIN o |-> IF x \in DOMAIN o THEN o[x] ELSE w[x]]

\* C5: with no validator installed, build(o) on working data w returns Success,
\* and its payload holds m, the keys of w and of o with o's value on the keys of
\* both: as a TestDto made by the transformer where one is installed, as the
\* plain record otherwise.
C5_BuildWithoutValidator ==
  [][\A b \in Live :
       BuildStep(b) /\ builders[b].validator = "none" =>
         /\ built'.tag = "Right"
         /\ last'.ret = [k |-> "either", a |-> built'.payload, s |-> "Right"]
         /\ heap'[built'.payload] =
              ObjectOf(IF builders[b].transformer = "none" THEN "Object" ELSE "TestDto",
                       Merged(heap[builders[b].dto].m, OverrideGiven))]_vars

\* C5's case: a build with a transformer and no validator, whose override gave a
\* key that the working data held with another value.
C5_Witness ==
  /\ last.prop = StrProp(N_build)
  /\ built.tag = "Right" /\ built.b = last.b
  /\ builders[last.b].validator = "none"
  /\ builders[last.b].transformer # "none"
  /\ last.args[1].k = "ref"
  /\ \E x \in DOMAIN heap[last.args[1].a].m :
       /\ x \in DOMAIN heap[builders[last.b].dto].m
       /\ heap[builders[last.b].dto].m[x] # heap[last.args[1].a].m[x]
  /\ heap[built.payload].cls = "TestDto"

\* C6: with a validator installed, when the validator returned a single error e
\* the build is a Failure whose error list is [e], and when it returned a list of
\* N errors the Failure's error list holds those N errors in the same order.
C6_FailureErrorList ==
  /\ built.returned.k = "error" =>
       built.tag = "Left" /\ built.errors = <<built.returned.e>>
  /\ built.returned.k = "array" =>
       /\ built.tag = "Left"
       /\ Len(built.errors) = Len(built.returned.errs)
       /\ \A i \in DOMAIN built.errors : built.errors[i] = built.returned.errs[i]

\* C6's case: a build whose validator returned a list of two errors.
C6_Witness ==
  /\ last.prop = StrProp(N_build)
  /\ built.tag = "Left" /\ built.b = last.b
  /\ built.returned.k = "array"
  /\ Len(built.returned.errs) = 2
  /\ built.returned.errs[1] # built.returned.errs[2]

\* C7: on a build with both a transformer and a validator installed, the
\* validator is invoked with the merged data, not with the object the transformer
\* returned. Violated by the class, whose build calls this.validator(dtoObj).
C7_ValidatorGetsMergedData ==
  \A i \in DOMAIN built.hooks :
    Len(built.hooks) = 2 /\ built.hooks[i].fn = "validator" =>
      /\ built.hooks[i].arg = built.merged
      /\ built.hooks[i].arg # built.payload

\* C8: every Failure returned by build carries a non-empty list of errors,
\* whatever the validator returned. Violated by a validator that returns the
\* empty list: it is not true, so build returns a Failure, whose list is empty.
C8_FailureHasErrors ==
  built.tag = "Left" => Len(built.errors) >= 1

\* The operations the builder declares.
DeclaredOperations(bb) ==
  IF bb.impl = "class" THEN ClassMethods \cup bb.own ELSE FnMethods

\* One of the prefixes get, set, add, count, immediately followed by an
\* upper-case letter.
IsAccessorName(name) ==
  \E p \in {P_get, P_set, P_add, P_count} : TestAnchored(p, name)

\* C9: resolving on the wrapper a string name that is neither a declared operation
\* nor get, set, add or count followed by an upper-case letter fails with a
\* TypeError. Violated by the code: the patterns of add and count are not
\* anchored, so preaddFoo resolves to the add accessor of the field foo.
C9_UnknownNameFails ==
  /\ last.b # 0
  /\ last.kind # "create"
  /\ ~last.prop.sym
  /\ last.prop.str \notin DeclaredOperations(builders[last.b])
  /\ ~IsAccessorName(last.prop.str)
  => last.out = "TypeError"

\* What the caller can see of the builders: each one's working data by value and
\* its hooks.
AllObserved == [b \in Live |-> Observed(b)]

\* C10: resolving a symbol-keyed member on the wrapper throws a TypeError, in
\* every state of the builder, and leaves the working data (and every builder)
\* as it was.
C10_SymbolThrows ==
  [][steps' # steps /\ last'.prop.sym =>
       /\ last'.out = "TypeError"
       /\ last'.kind = "symbolError"
       /\ builders' = builders
       /\ [b \in Live |-> Observed(b)'] = AllObserved]_vars

\* C10's case: a symbol has been resolved on a builder that holds working data
\* and a validator.
C10_Witness ==
  /\ last.b # 0
  /\ last.prop.sym
  /\ last.out = "TypeError"
  /\ builders[last.b].validator # "none"
  /\ DOMAIN heap[builders[last.b].dto].m # {}

\* The call is one of the operations that return the builder itself: set, patch,
\* reset, useValidator, useTransformer, or a generated set<F> or add<F>.
IsSelfReturning(call) ==
  \/ call.kind \in {"setter", "add"}
  \/ /\ call.kind = "member"
     /\ call.prop.str \in {N_set, N_patch, N_reset, N_useValidator, N_useTransformer}

PatchStep(b) == last'.b = b /\ last'.prop = StrProp(N_patch) /\ steps' # steps

\* The record p given to the patch of the step.
PatchGiven == heap'[last'.args[1].a].m

\* C12: patch(p) sets every key of p to p's value in the working data, leaves
\* every other key of the working data with the value it had, and removes no key.
C12_PatchOnlyNamedKeys ==
  [][\A b \in Live :
       PatchStep(b) =>
         LET old == heap[builders[b].dto].m
             new == heap'[builders'[b].dto].m
         IN  /\ DOMAIN new = DOMAIN old \cup DOMAIN PatchGiven
             /\ \A x \in DOMAIN PatchGiven : new[x] = PatchGiven[x]
             /\ \A x \in DOMAIN old \ DOMAIN PatchGiven : new[x] = old[x]]_vars

\* C12's case: a patch of the class on working data that holds a key the patch
\* does not name, next to the key it names.
C12_Witness ==
  /\ last.b # 0
  /\ builders[last.b].impl = "class"
  /\ last.prop = StrProp(N_patch) /\ last.out = "returned"
  /\ \E x \in DOMAIN heap[builders[last.b].dto].m : x \notin DOMAIN heap[last.args[1].a].m
  /\ \E x \in DOMAIN heap[builders[last.b].dto].m : x \in DOMAIN heap[last.args[1].a].m

\* The step is a call of add<F>(...) on builder b that returned.
AddStep(b) ==
  last'.b = b /\ last'.kind = "add" /\ last'.out = "returned" /\ steps' # steps

\* The elements of the sequence a field holds (none where the field is absent).
ItemsOf(h, v) == IF IsArray(h, v) THEN h[v.a].s ELSE <<>>

C14_CountOfSequenceOrZero ==
  last.b # 0 /\ last.kind = "count" /\ last.out = "returned" =>
    LET bb == builders[last.b]
        value == GetProp(heap[bb.dto].m, Resolve(bb, last.prop).key)
    IN  last.ret = IF IsArray(heap, value) THEN Num(Len(heap[value.a].s)) ELSE Num(0)

\* The caller has not written into the data it gave to the factory of builder b
\* (the class, whose initData it is).
GivenDataUntouched(b) ==
  Deep(heap, Ref(builders[b].initData)) = builders[b].origData

\* The last call was reset() on a builder of the class, and returned.
AfterReset ==
  /\ last.b # 0
  /\ builders[last.b].impl = "class"
  /\ last.kind = "member" /\ last.prop.str = N_reset /\ last.out = "returned"

\* C15: after any sequence of operations, reset() makes get() value-equal to the
\* data supplied when the builder was constructed, at every reset of a run.
\* Violated by the code where the data holds null: deepClone turns null into an
\* empty record (see C18).
C15_ResetRestoresGivenData ==
  AfterReset /\ builders[last.b].via = "create" /\ GivenDataUntouched(last.b)
    => Deep(heap, Ref(builders[last.b].dto)) = builders[last.b].origData

\* C16: for c = b.clone(), c.reset() restores c's working data to b's working
\* data as it was at the moment of cloning. Violated by the code where that data
\* holds null: the clone is seeded with deepClone of it (see C18).
C16_CloneResetsToCloningPoint ==
  AfterReset /\ builders[last.b].via = "clone"
    => Deep(heap, Ref(builders[last.b].dto)) = builders[last.b].origData

\* The step is a call of clone() on builder b that made a new builder.
CloneStep(b) ==
  /\ last'.b = b /\ last'.prop = StrProp(N_clone) /\ last'.out = "returned"
  /\ Len(builders') = Len(builders) + 1

\* C17: b.clone() has the validator and the transformer b has at the moment of
\* cloning (none included). Violated by createBuilder, whose clone() is
\* createBuilder({ ...dto }) and installs neither.
C17_CloneCarriesHooks ==
  [][\A b \in Live :
       CloneStep(b) =>
         /\ builders'[Len(builders')].validator = builders[b].validator
         /\ builders'[Len(builders')].transformer = builders[b].transformer]_vars

\* The last call was deepClone(v), called directly.
AfterDeepClone == last.kind = "deepClone"

\* A function is reachable from v: v itself, or a field, element, member or
\* entry of a container reachable from v.
HoldsFunction(h, v) ==
  \/ v.k = "function"
  \/ \E a \in Reach(h, v) :
       \/ \E x \in DOMAIN h[a].m : h[a].m[x].k = "function"
       \/ \E i \in DOMAIN h[a].s : h[a].s[i].k = "function"

\* v is data only: scalars, plain records, lists, sets, maps, dates and pattern
\* objects, and no function.
IsDataOnly(h, v) ==
  /\ ~HoldsFunction(h, v)
  /\ \A a \in Reach(h, v) : h[a].cls \in {"Object", "Array", "Set", "Map", "Date", "RegExp"}

\* C18: for every data-only value v, deepClone(v) is value-equal to v, and a
\* scalar is returned unchanged. Violated by the code for null, alone or inside
\* a container: typeof null is 'object', so null comes back as an empty record.
C18_CloneIsValueEqual ==
  AfterDeepClone /\ IsDataOnly(heap, last.args[1]) =>
    /\ last.out = "returned"
    /\ Deep(heap, last.ret) = Deep(heap, last.args[1])
    /\ last.args[1].k # "ref" => last.ret = last.args[1]

\* C19: for every data-only value v, no container reachable from deepClone(v) is
\* a container reachable from v. Violated by the code for a record used as the
\* key of a Map: the Map branch clones the values and keeps the keys.
C19_CloneSharesNothing ==
  AfterDeepClone /\ IsDataOnly(heap, last.args[1]) /\ last.out = "returned" =>
    Reach(heap, last.ret) \cap Reach(heap, last.args[1]) = {}

\* C20: deepClone(v) throws a TypeError whenever a function is reachable from v.
\* Violated by the code: only the record branch tests for a function; a function
\* given as v, or held by a list, a Set or a Map, is copied as it is.
C20_FunctionThrows ==
  AfterDeepClone /\ HoldsFunction(heap, last.args[1]) => last.out = "TypeError"

\* The last call was build(o), and what it was given as o.
AfterBuild == last.prop = StrProp(N_build) /\ last.kind = "member"
BuildOverride == IF last.args[1].k = "ref" THEN heap[last.args[1].a].m ELSE NoProps

\* What build(o) gives on builder b in the present state.
BuildOf(b, override) ==
  IF builders[b].impl = "class" THEN DtoBuilder_build(heap, builders[b], b, override)
  ELSE build(heap, builders[b], b, override)

\* C21: a builder made with the options { validate: fn } acts as one made without
\* options on which useValidator(fn) was called at once: while the two hold
\* value-equal working data, build(o) on one returns the Result that build(o) on
\* the other returns (the tag, the errors, the payload by value). Violated by the
\* code: the factories take no options, so the first builder has no validator
\* and its build returns a Success where fn returns an error.
C21_OptionsActAsUseValidator ==
  AfterBuild /\ Deep(heap, Ref(builders[1].dto)) = Deep(heap, Ref(builders[2].dto)) =>
    LET r == BuildOf(3 - last.b, BuildOverride)
    IN  /\ r.built.tag = built.tag
        /\ r.built.errors = built.errors
        /\ Deep(r.h, Ref(r.built.payload)) = Deep(heap, Ref(built.payload))

\* The step is the call b.extend() with no argument, that returned.
ExtendStep(b) ==
  /\ last'.b = b /\ last'.prop = StrProp(N_extend) /\ steps' # steps
  /\ last'.args = <<Undef>> /\ last'.out = "returned"

\* The step is the call of a generated setter on builder e, that returned.
SetterStep(e) == last'.b = e /\ last'.kind = "setter" /\ steps' # steps

\* e was made by b.extend(...).
IsExtensionOf(e, b) == builders[e].via = "extend" /\ builders[e].origin = b

\* C22: every builder b offers extend(); e = b.extend() holds working data
\* value-equal to b's at the call; and a field set on e afterwards is held by e
\* with the value given while the keys of b's working data stay as they were.
\* Violated by the code: the DtoBuilder class declares no extend, so the name
\* runs to the final TypeError of the get trap.
C22_ExtendYieldsWiderBuilder ==
  [][\A b \in Live :
       /\ Resolve(builders[b], StrProp(N_extend)).kind = "member"
       /\ ExtendStep(b) =>
            Deep(heap', Ref(builders'[last'.ret.a].dto)) = Deep(heap, Ref(builders[b].dto))
       /\ \A e \in Live :
            IsExtensionOf(e, b) /\ SetterStep(e) /\ e # b =>
              /\ GetProp(heap'[builders'[e].dto].m, Resolve(builders[e], last'.prop).key)
                   = last'.args[1]
              /\ DOMAIN heap'[builders'[b].dto].m = DOMAIN heap[builders[b].dto].m]_vars

\* C23: a call of a member name that is a declared operation of the builder
\* (built-in, or declared by its subtype) and matches a get/set/add/count pattern
\* runs the declared operation, never the generated accessor: getValidator()
\* returns the validator installed, and the subtype's setFoo(v) stores v in upper
\* case.
C23_DeclaredBeforeGenerated ==
  last.b # 0 /\ ~last.prop.sym /\ last.prop.str \in DeclaredOperations(builders[last.b])
    /\ IsAccessorName(last.prop.str) =>
      /\ last.kind = "member"
      /\ last.prop.str = N_getValidator =>
           last.ret = DtoBuilder_getValidator(builders[last.b])
      /\ last.prop.str = N_setFoo /\ last.out = "returned" =>
           GetProp(heap[builders[last.b].dto].m, N_foo) = Str(toUpperCase(last.args[1].s))

\* The setFoo('baz') that the subtype declares has run and stored 'BAZ'.
C23_Witness ==
  /\ last.prop = StrProp(N_setFoo) /\ last.kind = "member" /\ last.out = "returned"
  /\ N_setFoo \in builders[last.b].own
  /\ last.args = <<Str("baz")>>
  /\ GetProp(heap[builders[last.b].dto].m, N_foo) = Str("BAZ")

\* The prefix of an accessor name, the kind of accessor the prefix stands for, and
\* the field the name addresses: the Name after the prefix with its first
\* character in lower case.
PrefixOf(name) == CHOOSE p \in {P_get, P_set, P_add, P_count} : TestAnchored(p, name)

KindOf(prefix) ==
  CASE prefix = P_get -> "getter"
    [] prefix = P_set -> "setter"
    [] prefix = P_add -> "add"
    [] prefix = P_count -> "count"

FieldOf(name) ==
  LET Name == SubSeq(name, Len(PrefixOf(name)) + 1, Len(name))
  IN  <<ToLowerCase(Name[1])>> \o Tail(Name)

\* The step is a call, that returned, of the generated accessor named name.
AccessorStep(name) ==
  /\ steps' # steps /\ last'.b # 0 /\ last'.out = "returned"
  /\ last'.prop = StrProp(name)
  /\ IsAccessorName(name)
  /\ name \notin DeclaredOperations(builders[last'.b])

\* C24: a call of the generated accessor <prefix><Name> acts as the accessor of
\* its prefix on the key FieldOf(<prefix><Name>) and on no other key of the
\* working data: the setter stores the value there, the getter and the count
\* accessor read it there, the add accessor appends there; and build() after it
\* yields a record with the keys of the working data. Violated by the code: the
\* pattern of add has no ^ anchor and is tried before that of count, so
\* countPreaddFoo resolves to the add accessor of a key named countPreaddFoo.
C24_AccessorAddressesField ==
  [][/\ \A name \in Names :
          AccessorStep(name) =>
            LET b == last'.b
                key == FieldOf(name)
                old == heap[builders[b].dto].m
                new == heap'[builders'[b].dto].m
            IN  /\ last'.kind = KindOf(PrefixOf(name))
                /\ \A x \in (DOMAIN old \cup DOMAIN new) \ {key} :
                     x \in DOMAIN old /\ x \in DOMAIN new /\ new[x] = old[x]
                /\ last'.kind = "setter" => GetProp(new, key) = last'.args[1]
                /\ last'.kind = "getter" => last'.ret = GetProp(old, key) /\ new = old
                /\ last'.kind = "count" =>
                     /\ IsArray(heap, GetProp(old, key)) =>
                          last'.ret = Num(Len(ItemsOf(heap, GetProp(old, key))))
                     /\ new = old
                /\ last'.kind = "add" =>
                     ItemsOf(heap', GetProp(new, key))
                       = ItemsOf(heap, GetProp(old, key)) \o last'.args
     /\ \A b \in Live :
          BuildStep(b) /\ last'.args = <<Undef>> =>
            DOMAIN heap'[built'.payload].m = DOMAIN heap[builders[b].dto].m]_vars

\* The step is the call b.useValidator(fn) or b.useTransformer(fn), and the
\* function it was given ("none": no function).
UseHookStep(b, name) == last'.b = b /\ last'.prop = StrProp(name) /\ steps' # steps
HookGiven == IF last'.args[1].k = "function" THEN last'.args[1].s ELSE "none"

\* C25: useValidator and useTransformer install the function given in place of
\* any earlier one, and clear the stage when given none; a build on a builder
\* with no validator returns a Success, and a build on a builder with no
\* transformer has the merged data itself as its payload.
C25_HooksInstalledAndCleared ==
  [][\A b \in Live :
       /\ UseHookStep(b, N_useValidator) =>
            /\ builders'[b].validator = HookGiven
            /\ builders'[b].transformer = builders[b].transformer
       /\ UseHookStep(b, N_useTransformer) =>
            /\ builders'[b].transformer = HookGiven
            /\ builders'[b].validator = builders[b].validator
       /\ BuildStep(b) /\ builders[b].validator = "none" => built'.tag = "Right"
       /\ BuildStep(b) /\ builders[b].transformer = "none" =>
            /\ built'.payload = built'.merged
            /\ heap'[built'.payload] = ObjectOf("Object", Merged(heap[builders[b].dto].m,
                                                                 OverrideGiven))]_vars

\* useValidator() with no function has just cleared the validator of a builder
\* whose last build was a Failure, so a validator had been installed on it.
C25_Witness ==
  /\ last.prop = StrProp(N_useValidator) /\ last.args = <<Undef>>
  /\ built.tag = "Left" /\ built.b = last.b
  /\ builders[last.b].validator = "none"

RECURSIVE ErrorLines(_)
\* One line per error, each a line break and indent, then the error's kind tag in
\* brackets and its message.
ErrorLines(errs) ==
  IF errs = <<>> THEN ""
  ELSE "\n\t[" \o Head(errs).name \o "]: " \o Head(errs).message \o ErrorLines(Tail(errs))

\* C26: when the validator returned several errors, the Failure's message is the
\* fixed text 'Cannot build a DTO. Validation failed!' followed by one line per
\* error, each with the error's kind tag and message, in the validator's order.
C26_FailureMessageLines ==
  built.returned.k = "array" /\ Len(built.returned.errs) >= 2 =>
    /\ built.tag = "Left"
    /\ built.message
         = "Cannot build a DTO. Validation failed!" \o ErrorLines(built.returned.errs)

\* A build has failed on two errors, with the message of the test.
C26_Witness ==
  /\ last.prop = StrProp(N_build) /\ built.b = last.b /\ built.tag = "Left"
  /\ Len(built.returned.errs) = 2
  /\ built.message = "Cannot build a DTO. Validation failed!"
                       \o "\n\t[Error]: Invalid Foo" \o "\n\t[Error]: Invalid Bar"

\* C27: build(o) leaves the builder as it was: its working data (the same object,
\* with the same value), its initial data, its validator and its transformer,
\* whether the build is a Success or a Failure; so do all other builders.
C27_BuildLeavesBuilder ==
  [][\A b \in Live :
       BuildStep(b) =>
         /\ builders' = builders
         /\ \A c \in Live :
              /\ Deep(heap', Ref(builders[c].dto)) = Deep(heap, Ref(builders[c].dto))
              /\ builders[c].impl = "class" =>
                   Deep(heap', Ref(builders[c].initData))
                     = Deep(heap, Ref(builders[c].initData))]_vars

\* A build given the override { foo: 'baz' } has failed on a builder whose working
\* data holds another value of foo, or none.
C27_Witness ==
  /\ last.prop = StrProp(N_build) /\ last.args[1].k = "ref"
  /\ built.b = last.b /\ built.tag = "Left"
  /\ GetProp(heap[builders[last.b].dto].m, N_foo) # Str("baz")
  /\ GetProp(heap[built.payload].m, N_foo) = Str("baz")

\* The step is a call of set<F>, add<F>, patch, set or reset on builder b.
MutatorStep(b) ==
  /\ last'.b = b /\ steps' # steps
  /\ \/ last'.kind \in {"setter", "add"}
     \/ last'.prop \in {StrProp(N_patch), StrProp(N_set), StrProp(N_reset)}

\* C28: the finished object r of a successful build with no transformer is not
\* changed, in any field at any depth, by a later set<F>, add<F>, patch, set or
\* reset on the builder. Violated by the code: build copies the working data one
\* level deep, so r shares each sequence with the working data, and add<F>
\* pushes onto that sequence in place.
C28_BuiltObjectIndependent ==
  [][built.tag = "Right" /\ builders[built.b].transformer = "none"
       /\ built.payload = built.merged /\ MutatorStep(built.b) =>
         Deep(heap', Ref(built.payload)) = Deep(heap, Ref(built.payload))]_vars

\* The objects the caller made and gave to a call as an argument: those it holds
\* that came after the initial data.
ArgumentObjects == {a \in held : a > GivenData}

\* C29: no set<F>, add<F>, patch, set or reset on a builder changes an object the
\* caller gave to an earlier call on that builder (the only builder there is).
\* Violated by the code: set(wholeRecord) makes the record given the working
\* data, and set<F>(sequence) stores the sequence given, so that a later set<F>
\* or add<F> writes into the caller's object.
C29_ArgumentsNotModified ==
  [][Len(builders) = 1 /\ MutatorStep(1) =>
       \A a \in ArgumentObjects : heap'[a] = heap[a]]_vars

\* C30: in a build on a builder with both a transformer and a validator, the
\* hooks invoked are the transformer, once, and then the validator, once, in
\* builds that end in a Failure as in those that end in a Success.
C30_HooksOnceInOrder ==
  AfterBuild /\ built.b = last.b
    /\ builders[last.b].transformer # "none" /\ builders[last.b].validator # "none" =>
      /\ Len(built.hooks) = 2
      /\ built.hooks[1].fn = "transformer"
      /\ built.hooks[2].fn = "validator"
      /\ built.tag \in {"Left", "Right"}

\* A build with both hooks installed has ended in a Failure.
C30_Witness ==
  /\ AfterBuild /\ built.b = last.b /\ built.tag = "Left"
  /\ builders[last.b].transformer # "none" /\ builders[last.b].validator # "none"
  /\ heap[built.payload].cls = "TestDto"

====
